---- MODULE Spec2Model ----
(***************************************************************************)
(* Financial dashboard: the forecaster (src/prediction_model.py) and the   *)
(* page script that calls it (src/main.py).                                *)
(*                                                                         *)
(* A table (pandas DataFrame) is [columns, rows]; a row is a record with   *)
(* the fields date, Category, amount ("Transaction Amount") and, once      *)
(* prepare_data has run on the table, days_since_start.  A date is a day   *)
(* ordinal of one year (31 = 31 January, 32 = 1 February).  Amounts are    *)
(* integers and the regression is computed in exact rational arithmetic    *)
(* (a fraction is [n, d], reduced, d > 0).                                 *)
(***************************************************************************)
EXTENDS Integers, Sequences, FiniteSets, TLC

VARIABLES
    data,               \* rows of data.csv as load_data returns them
    df,                 \* the table the caller holds and passes to the forecaster
    pc,                 \* position of the running script / call
    selected_category,  \* sidebar selectbox value
    selected_month,     \* sidebar selectbox value
    filtered_is_df,     \* filtered_df is the very object df (no filter applied)
    filtered_own,       \* filtered_df when it is a derived table of its own
    shown_columns,      \* columns of the table st.dataframe rendered
    calls,              \* calls of predict_future_transactions in this render
    forecast_arg,       \* rows of the table handed to the forecaster
    fc,                 \* what the forecaster call computed and returned
    csv                 \* the table serialised for the download button

vars == <<data, df, pc, selected_category, selected_month, filtered_is_df,
          filtered_own, shown_columns, calls, forecast_arg, fc, csv>>

----------------------------------------------------------------------------
(* Bounds of the explored inputs *)

MaxRecords == 4

days_to_predict == 30

Dates == {30, 31, 32}

Amounts == {-30, 0, 12, 14}

PageDates == {31, 32}

PageAmounts == {-30, 12}

Categories == {"A", "B"}

LoadedColumns == {"date", "Category", "amount"}

Row(d, c, a) == [date |-> d, Category |-> c, amount |-> a]

SeqsUpTo(S, n) == UNION {[1..k -> S] : k \in 0..n}

ForecastLedgers ==
    SeqsUpTo({Row(d, "A", a) : d \in Dates, a \in Amounts}, MaxRecords)

\* The page is explored on ledgers in date order, as a bank export lists them.
PageLedgers ==
    {l \in SeqsUpTo({Row(d[1], d[2], a) : d \in PageDates \X Categories,
                                           a \in PageAmounts}, MaxRecords) :
        \A i \in DOMAIN l : \A j \in DOMAIN l : i < j => l[i].date <= l[j].date}

----------------------------------------------------------------------------
(* Arithmetic helpers *)

Abs(x) == IF x < 0 THEN -x ELSE x

RECURSIVE GCD(_, _)
GCD(a, b) == IF b = 0 THEN a ELSE GCD(b, a % b)

Frac(n, d) ==
    LET g == GCD(Abs(n), Abs(d))
        s == IF d < 0 THEN -1 ELSE 1
    IN [n |-> (s * n) \div g, d |-> (s * d) \div g]

Range(s) == {s[i] : i \in DOMAIN s}

RECURSIVE SumSeq(_)
SumSeq(s) == IF Len(s) = 0 THEN 0 ELSE s[Len(s)] + SumSeq(SubSeq(s, 1, Len(s) - 1))

MinDate(rows) == CHOOSE d \in {r.date : r \in Range(rows)} :
                    \A e \in {r.date : r \in Range(rows)} : d <= e

MaxDate(rows) == CHOOSE d \in {r.date : r \in Range(rows)} :
                    \A e \in {r.date : r \in Range(rows)} : d >= e

----------------------------------------------------------------------------
(* src/prediction_model.py *)

\* prepare_data: writes the columns INTO the table it is given and returns it.
\* pd.to_datetime of the date column leaves the day ordinals as they are.
prepare_data(t) ==
    [columns |-> t.columns \cup {"days_since_start"},
     rows |-> [i \in DOMAIN t.rows |->
                 [date |-> t.rows[i].date,
                  Category |-> t.rows[i].Category,
                  amount |-> t.rows[i].amount,
                  days_since_start |-> t.rows[i].date - MinDate(t.rows)]]]

IsIncome(r) == r.amount > 0

IsExpenditure(r) == r.amount < 0

IsNonNegative(r) == r.amount >= 0

\* slip: ">= 0" for "> 0", so zero amounts count as income
income_rows_nonneg(rows) == SelectSeq(rows, IsNonNegative)

\* df[df['Transaction Amount'] > 0]: a new table of the selected rows.
income_rows(rows) == SelectSeq(rows, IsIncome)

\* df[df['Transaction Amount'] < 0].copy(), then the amount column made absolute.
expenditure_rows(rows) ==
    LET sel == SelectSeq(rows, IsExpenditure)
    IN [i \in DOMAIN sel |->
          [date |-> sel[i].date,
           Category |-> sel[i].Category,
           amount |-> Abs(sel[i].amount),
           days_since_start |-> sel[i].days_since_start]]

\* numpy.random.RandomState(42).permutation(n), positions counted from 1
\* (MT19937 seeded with 42, Fisher-Yates from the last position down).
Permutation42(n) ==
    CASE n = 0 -> << >>
      [] n = 1 -> <<1>>
      [] n = 2 -> <<2, 1>>
      [] n = 3 -> <<1, 2, 3>>
      [] n = 4 -> <<2, 4, 1, 3>>
      [] n = 5 -> <<2, 5, 3, 1, 4>>
      [] n = 6 -> <<1, 2, 6, 3, 5, 4>>
      [] n = 7 -> <<1, 2, 6, 3, 5, 4, 7>>

\* test_size=0.2: n_test = ceil(0.2 * n), n_train = n - n_test.
NTest(n) == (n + 4) \div 5

NTrain(n) == n - NTest(n)

\* train_test_split: the first n_test positions of the permutation are held
\* out, the next n_train are the training part.
TestIndices(n) == {Permutation42(n)[k] : k \in 1..NTest(n)}

TrainIndices(n) == {Permutation42(n)[k] : k \in (NTest(n) + 1)..n}

IndexSeq(rows, idx) ==
    LET keep(i) == i \in idx
        pos == SelectSeq([i \in DOMAIN rows |-> i], keep)
    IN [k \in DOMAIN pos |-> rows[pos[k]]]

X_train(rows) == IndexSeq(rows, TrainIndices(Len(rows)))

X_test(rows) == IndexSeq(rows, TestIndices(Len(rows)))

NoModel == [fitted |-> FALSE, coef |-> Frac(0, 1), intercept |-> Frac(0, 1)]

\* LinearRegression().fit(X, y) with one feature: the least-squares line; when
\* every x is the same the centred feature is zero and the minimum-norm
\* solution is coef = 0, intercept = mean(y).
LinearRegression(rows) ==
    LET n == Len(rows)
        x == [i \in DOMAIN rows |-> rows[i].days_since_start]
        y == [i \in DOMAIN rows |-> rows[i].amount]
        Sx == SumSeq(x)
        Sy == SumSeq(y)
        Sxx == SumSeq([i \in DOMAIN rows |-> x[i] * x[i]])
        Sxy == SumSeq([i \in DOMAIN rows |-> x[i] * y[i]])
        den == n * Sxx - Sx * Sx
        num == n * Sxy - Sx * Sy
    IN IF den = 0
       THEN [fitted |-> TRUE, coef |-> Frac(0, 1), intercept |-> Frac(Sy, n)]
       ELSE [fitted |-> TRUE, coef |-> Frac(num, den),
             intercept |-> Frac(Sy * den - num * Sx, n * den)]

\* slip: the line fitted on the held-out part (X_test for X_train)
train_model_on_test(rows) ==
    IF NTrain(Len(rows)) = 0 THEN NoModel ELSE LinearRegression(X_test(rows))

\* train_model: train_test_split raises ValueError when the training part
\* would be empty (n = 0 or n = 1); otherwise the line is fitted on X_train.
train_model(rows) ==
    IF NTrain(Len(rows)) = 0 THEN NoModel ELSE LinearRegression(X_train(rows))

\* model.predict on one day index
Predict(model, x) ==
    Frac(model.coef.n * x * model.intercept.d + model.intercept.n * model.coef.d,
         model.coef.d * model.intercept.d)

\* slip: an inclusive end of the range taken for a count, one day too few
make_predictions_short(model, rows) ==
    LET last_date == MaxDate(rows)
        start == MinDate(rows)
    IN [i \in 1..(days_to_predict - 1) |->
          [date |-> last_date + i,
           days_since_start |-> (last_date + i) - start,
           prediction |-> Predict(model, (last_date + i) - start)]]

\* make_predictions(model, df): df is the table it is handed.
make_predictions(model, rows) ==
    LET last_date == MaxDate(rows)
        start == MinDate(rows)
    IN [i \in 1..days_to_predict |->
          [date |-> last_date + i,
           days_since_start |-> (last_date + i) - start,
           prediction |-> Predict(model, (last_date + i) - start)]]

NoCall ==
    [outcome |-> "none", error |-> "", raised_for |-> "",
     df |-> [columns |-> {}, rows |-> << >>],
     income_df |-> << >>, expenditure_df |-> << >>,
     income_model |-> NoModel, expenditure_model |-> NoModel,
     future_income |-> << >>, future_expenditure |-> << >>]

\* predict_future_transactions(df): field df of the result is the caller's
\* table as the call leaves it.
predict_future_transactions(t) ==
    LET p == prepare_data(t)
        inc == income_rows(p.rows)
        exp == expenditure_rows(p.rows)
        im == train_model(inc)
        em == train_model(exp)
        base == [NoCall EXCEPT !.df = p, !.income_df = inc, !.expenditure_df = exp]
    IN IF ~im.fitted
       THEN [base EXCEPT !.outcome = "raised", !.error = "ValueError",
                         !.raised_for = "income"]
       ELSE IF ~em.fitted
       THEN [base EXCEPT !.outcome = "raised", !.error = "ValueError",
                         !.raised_for = "expenditure", !.income_model = im]
       ELSE [base EXCEPT !.outcome = "returned",
                         !.income_model = im, !.expenditure_model = em,
                         !.future_income = make_predictions(im, inc),
                         !.future_expenditure = make_predictions(em, exp)]

----------------------------------------------------------------------------
(* src/main.py *)

NoTable == [columns |-> {}, rows |-> << >>]

\* load_data: st.cache_data hands every run a fresh copy of the parsed file.
load_data(rows) == [columns |-> LoadedColumns, rows |-> rows]

\* dt.to_period('M') of a day ordinal
to_period(d) == IF d <= 31 THEN 1 ELSE 2

\* month.strftime('%B %Y')
strftime(m) == IF m = 1 THEN "January 2024" ELSE "February 2024"

\* pd.Period(selected_month)
Period(label) ==
    CASE label = "January 2024" -> 1
      [] label = "February 2024" -> 2

\* ['All'] + sorted(df['Category'].unique().tolist())
categories(t) == {"All"} \cup {r.Category : r \in Range(t.rows)}

\* month_options with 'All' inserted at the front
month_options(t) == {"All"} \cup {strftime(to_period(r.date)) : r \in Range(t.rows)}

\* variant: filtered_df = df.copy() before the masks, never the object df
ApplyFilters_copy(t, cat, month) ==
    LET keep(r) == /\ (cat # "All" => r.Category = cat)
                   /\ (month # "All" => to_period(r.date) = Period(month))
    IN [is_df |-> FALSE,
        own |-> [columns |-> t.columns, rows |-> SelectSeq(t.rows, keep)]]

\* "Apply filters": filtered_df = df, narrowed by a boolean mask per active
\* filter.  A mask makes a new table; with no active filter the name
\* filtered_df stays bound to df itself.
ApplyFilters(t, cat, month) ==
    LET keep(r) == /\ (cat # "All" => r.Category = cat)
                   /\ (month # "All" => to_period(r.date) = Period(month))
    IN IF cat = "All" /\ month = "All"
       THEN [is_df |-> TRUE, own |-> NoTable]
       ELSE [is_df |-> FALSE,
             own |-> [columns |-> t.columns, rows |-> SelectSeq(t.rows, keep)]]

\* the table the name filtered_df denotes
filtered_df == IF filtered_is_df THEN df ELSE filtered_own

----------------------------------------------------------------------------
(* State machines *)

InitLocals ==
    /\ selected_category = "All"
    /\ selected_month = "All"
    /\ filtered_is_df = TRUE
    /\ filtered_own = NoTable
    /\ shown_columns = {}
    /\ calls = 0
    /\ forecast_arg = << >>
    /\ fc = NoCall
    /\ csv = NoTable

\* The forecaster called on its own with a parsed table.
Init ==
    /\ data \in ForecastLedgers
    /\ df = load_data(data)
    /\ pc = "call"
    /\ InitLocals

\* One run of the page script, from "df = load_data()".
InitPage ==
    /\ data \in PageLedgers
    /\ df = load_data(data)
    /\ pc = "sidebar"
    /\ InitLocals

\* future_income, future_expenditure = predict_future_transactions(df)
DirectCall ==
    /\ pc = "call"
    /\ calls' = calls + 1
    /\ forecast_arg' = df.rows
    /\ fc' = predict_future_transactions(df)
    /\ df' = fc'.df
    /\ pc' = fc'.outcome
    /\ UNCHANGED <<data, selected_category, selected_month, filtered_is_df,
                   filtered_own, shown_columns, csv>>

\* main.py 23-39: the two selectboxes
SelectFilters ==
    /\ pc = "sidebar"
    /\ \E c \in categories(df), m \in month_options(df) :
          /\ selected_category' = c
          /\ selected_month' = m
    /\ pc' = "filter"
    /\ UNCHANGED <<data, df, filtered_is_df, filtered_own, shown_columns, calls,
                   forecast_arg, fc, csv>>

\* main.py 41-48
Filter ==
    /\ pc = "filter"
    /\ LET f == ApplyFilters(df, selected_category, selected_month)
       IN /\ filtered_is_df' = f.is_df
          /\ filtered_own' = f.own
    /\ pc' = "render"
    /\ UNCHANGED <<data, df, selected_category, selected_month, shown_columns,
                   calls, forecast_arg, fc, csv>>

\* main.py 50-114: metrics and charts (sums, means and group-bys, defined on
\* an empty table too), then st.dataframe(filtered_df)
RenderTable ==
    /\ pc = "render"
    /\ shown_columns' = filtered_df.columns
    /\ pc' = "insights"
    /\ UNCHANGED <<data, df, selected_category, selected_month, filtered_is_df,
                   filtered_own, calls, forecast_arg, fc, csv>>

\* main.py 116-147: idxmax / idxmin of the monthly sums raise ValueError when
\* filtered_df has no row, and the run ends there.
TimeAnalysis ==
    /\ pc = "insights"
    /\ pc' = IF Len(filtered_df.rows) = 0 THEN "crashed" ELSE "predictions"
    /\ UNCHANGED <<data, df, selected_category, selected_month, filtered_is_df,
                   filtered_own, shown_columns, calls, forecast_arg, fc, csv>>

\* main.py 149-184
CallForecaster ==
    /\ pc = "predictions"
    /\ calls' = calls + 1
    /\ forecast_arg' = df.rows
    /\ fc' = predict_future_transactions(df)
    /\ df' = fc'.df
    /\ pc' = IF fc'.outcome = "returned" THEN "download" ELSE "crashed"
    /\ UNCHANGED <<data, selected_category, selected_month, filtered_is_df,
                   filtered_own, shown_columns, csv>>

\* main.py 186-194
Download ==
    /\ pc = "download"
    /\ csv' = filtered_df
    /\ pc' = "done"
    /\ UNCHANGED <<data, df, selected_category, selected_month, filtered_is_df,
                   filtered_own, shown_columns, calls, forecast_arg, fc>>

\* Streamlit runs the script again from the top: df = load_data() is a fresh
\* copy and every name of the script is rebound.
Rerun ==
    /\ pc \in {"done", "crashed"}
    /\ df' = load_data(data)
    /\ pc' = "sidebar"
    /\ selected_category' = "All"
    /\ selected_month' = "All"
    /\ filtered_is_df' = TRUE
    /\ filtered_own' = NoTable
    /\ shown_columns' = {}
    /\ calls' = 0
    /\ forecast_arg' = << >>
    /\ fc' = NoCall
    /\ csv' = NoTable
    /\ UNCHANGED data

Next == DirectCall

Spec == Init /\ [][Next]_vars

NextPage ==
    \/ SelectFilters
    \/ Filter
    \/ RenderTable
    \/ TimeAnalysis
    \/ CallForecaster
    \/ Download
    \/ Rerun

SpecPage == InitPage /\ [][NextPage]_vars

----------------------------------------------------------------------------
(* Properties *)

Called == fc.outcome # "none"

Returned == fc.outcome = "returned"

Forecasts == {fc.future_income, fc.future_expenditure}

PosIdx == {i \in DOMAIN data : data[i].amount > 0}

NegIdx == {i \in DOMAIN data : data[i].amount < 0}

ZeroIdx == {i \in DOMAIN data : data[i].amount = 0}

Kth(S, k) == CHOOSE x \in S : Cardinality({y \in S : y < x}) = k - 1

ForecastDaily(f) ==
    /\ Len(f) = 30
    /\ \A i \in 1..(Len(f) - 1) : f[i + 1].date = f[i].date + 1

\* C1: whenever predict_future_transactions returns, each of the two
\* forecasts has exactly 30 entries and consecutive entries are exactly one
\* day apart (strictly increasing, no gap, no duplicate).
C1_ThirtyConsecutiveDays ==
    Returned => \A f \in Forecasts : ForecastDaily(f)

C1_Witness ==
    /\ Returned
    /\ fc.future_income[30].date = fc.future_income[1].date + 29
    /\ fc.future_income[1].date # fc.future_expenditure[1].date

\* C2: both forecasts start on the day after the latest date of the whole
\* input series, so they cover the same 30 dates.
C2_SharedEndAnchor ==
    Returned => \A f \in Forecasts : f[1].date = MaxDate(data) + 1

\* C3: the day index fed to the fitted line at every projected date is the
\* day count from the minimum date of the entire series, the epoch of the
\* days_since_start column used for fitting.
C3_GlobalEpochAtProjection ==
    Returned => \A f \in Forecasts : \A i \in DOMAIN f :
                   f[i].days_since_start = f[i].date - MinDate(data)

OneIncomeRecord == Cardinality(PosIdx) = 1

AdequateExpenditure ==
    \E i \in NegIdx : \E j \in NegIdx : data[i].date # data[j].date

\* C4: with exactly one income record and an adequate expenditure subseries
\* the call raises InsufficientDataError for the income forecast and the
\* expenditure forecast is still produced.
C4_IncomeFailureKeepsExpenditure ==
    (Called /\ OneIncomeRecord /\ AdequateExpenditure) =>
        /\ fc.error = "InsufficientDataError"
        /\ fc.raised_for = "income"
        /\ ForecastDaily(fc.future_expenditure)

\* C5: after any call, returning or raising, the caller's table has the
\* columns and the values it had before the call.
C5_NoSideEffects ==
    Called => df = load_data(data)

\* C6: when a run of the page script over a data file with transactions has
\* ended, whatever the sidebar selection, the forecaster was called exactly
\* once and was handed the complete unfiltered dataset.
C6_ForecasterCalledOncePerRender ==
    (pc \in {"done", "crashed"} /\ Len(data) > 0) =>
        (calls = 1 /\ forecast_arg = data)

\* C7: the income subseries is exactly the records with amount > 0, amounts
\* unchanged; the expenditure subseries is exactly the records with
\* amount < 0, each amount replaced by its absolute value; records with
\* amount = 0 are in neither; every record keeps its date and its
\* days_since_start (counted from the minimum date of the whole series).
C7_Partition ==
    Called =>
        LET P == fc.df.rows
            inc == fc.income_df
            exp == fc.expenditure_df
        IN /\ Len(P) = Len(data)
           /\ \A i \in DOMAIN data :
                 /\ P[i].date = data[i].date
                 /\ P[i].amount = data[i].amount
                 /\ P[i].days_since_start = data[i].date - MinDate(data)
           /\ Len(inc) = Cardinality(PosIdx)
           /\ \A k \in DOMAIN inc : inc[k] = P[Kth(PosIdx, k)]
           /\ Len(exp) = Cardinality(NegIdx)
           /\ \A k \in DOMAIN exp :
                 /\ exp[k].date = P[Kth(NegIdx, k)].date
                 /\ exp[k].days_since_start = P[Kth(NegIdx, k)].days_since_start
                 /\ exp[k].Category = P[Kth(NegIdx, k)].Category
                 /\ exp[k].amount = 0 - P[Kth(NegIdx, k)].amount
                 /\ exp[k].amount > 0
           /\ Len(inc) + Len(exp) + Cardinality(ZeroIdx) = Len(data)

C7_Witness ==
    /\ Called
    /\ ZeroIdx # {}
    /\ Len(fc.income_df) >= 2
    /\ Len(fc.expenditure_df) >= 1
    /\ \E k \in DOMAIN fc.income_df : fc.income_df[k].days_since_start > 0

IncomeOnLine ==
    \A i \in PosIdx : data[i].amount = 2 * (data[i].date - MinDate(data)) + 10

TwoIncomeDays == \E i \in PosIdx : \E j \in PosIdx : data[i].date # data[j].date

\* C8: when the income records lie exactly on amount = 2 * days + 10 (days
\* from the global minimum date, at least two distinct days) and the call
\* returns, the fitted income slope is 2, the intercept 10, and each of the
\* 30 projected income points is 2 * d + 10 for d the projected date's day
\* count from the global minimum date.
C8_ExactLineRecovered ==
    (Returned /\ IncomeOnLine /\ TwoIncomeDays) =>
        /\ fc.income_model.coef = Frac(2, 1)
        /\ fc.income_model.intercept = Frac(10, 1)
        /\ \A i \in DOMAIN fc.future_income :
              fc.future_income[i].prediction =
                  Frac(2 * (fc.future_income[i].date - MinDate(data)) + 10, 1)

Fits == {<<fc.income_df, fc.income_model>>, <<fc.expenditure_df, fc.expenditure_model>>}

\* C9 as stated: the line fitted by train_model is the least-squares line of
\* the full subseries, for both subseries.
C9_SplitHasNoEffect ==
    \A s \in Fits : s[2].fitted => s[2] = LinearRegression(s[1])

OnOneLine(rows) ==
    \A i \in DOMAIN rows : \A j \in DOMAIN rows : \A k \in DOMAIN rows :
        (rows[j].amount - rows[i].amount)
            * (rows[k].days_since_start - rows[i].days_since_start)
        = (rows[k].amount - rows[i].amount)
            * (rows[j].days_since_start - rows[i].days_since_start)

TrainSpansTwoDays(rows) ==
    \E i \in TrainIndices(Len(rows)) : \E j \in TrainIndices(Len(rows)) :
        rows[i].days_since_start # rows[j].days_since_start

\* C9 amended: when all records of a subseries lie exactly on one line and
\* the training part holds at least two distinct day indices, the fitted
\* line is that line, which is also the least-squares line of the full
\* subseries.
C9_SplitInertOnExactLine ==
    \A s \in Fits :
        (s[2].fitted /\ OnOneLine(s[1]) /\ TrainSpansTwoDays(s[1])) =>
            /\ s[2] = LinearRegression(s[1])
            /\ \A i \in DOMAIN s[1] : \A j \in DOMAIN s[1] :
                  LET dx == s[1][j].days_since_start - s[1][i].days_since_start
                      dy == s[1][j].amount - s[1][i].amount
                  IN dx # 0 =>
                       /\ s[2].coef = Frac(dy, dx)
                       /\ s[2].intercept =
                              Frac(s[1][i].amount * dx - dy * s[1][i].days_since_start, dx)

C9_Witness ==
    /\ fc.income_model.fitted
    /\ Len(fc.income_df) >= 3
    /\ OnOneLine(fc.income_df)
    /\ TrainSpansTwoDays(fc.income_df)
    /\ fc.income_model.coef = Frac(2, 1)
    /\ \E k \in TestIndices(Len(fc.income_df)) : fc.income_df[k].amount > 0

BothAll == selected_category = "All" /\ selected_month = "All"

\* C10: with both filters 'All', filtered_df is the object df, the Detailed
\* Data table (rendered before the forecast) has the loaded columns only and
\* the downloaded CSV (built after the forecast) has days_since_start as
\* well; with a filter active, filtered_df is a table of its own and the CSV
\* has exactly the loaded columns.
C10_DownloadColumns ==
    /\ pc \notin {"sidebar", "filter"} => (filtered_is_df <=> BothAll)
    /\ pc = "done" =>
          /\ shown_columns = LoadedColumns
          /\ BothAll => csv.columns = LoadedColumns \cup {"days_since_start"}
          /\ ~BothAll => csv.columns = LoadedColumns

C10_Witness ==
    /\ pc = "done"
    /\ BothAll
    /\ "days_since_start" \in csv.columns
    /\ "days_since_start" \notin shown_columns

====
